---- MODULE Spec2Model ----
(***************************************************************************)
(* Model of the iterative fidelity-refinement loop of CloneSphere:         *)
(* WebsiteCloner.clone_website (backend/app/llm/llm_cloner.py) driven by   *)
(* the request handlers of backend/app/main.py.                            *)
(*                                                                         *)
(* One cloning session is modelled statement by statement.  The handlers   *)
(* share one process-wide WebsiteCloner object; the session runs on an     *)
(* asyncio event loop, so another request can run only while the session   *)
(* is suspended in an await that really yields (intelligent_clone before   *)
(* the session is configured, render_generated_html inside it).  The       *)
(* generate calls use the synchronous Anthropic client and do not yield.   *)
(*                                                                         *)
(* Scores are floats in the code; here they are integers in thousandths    *)
(* (0.85 is 850) and arithmetic is exact.                                  *)
(*                                                                         *)
(* The classifier filter_meaningful_images and the two scorers             *)
(* _simple_content_validation and _validate_smart_image_implementation are *)
(* functions of their arguments.  They are modelled as operators on        *)
(* strings (sequences of fragments) and studied under specifications of    *)
(* their own - ClassifierSpec, ContentSpec, AssetSpec, ScenarioSpec - that *)
(* choose the arguments and apply them; in Spec the session sees their     *)
(* results only as the content and asset score of each candidate.  So are  *)
(* the normalizer _extract_html / _fix_html (NormalizerSpec) and the       *)
(* prompt builder create_simple_refinement_prompt (PromptSpec).            *)
(***************************************************************************)
EXTENDS Integers, Sequences, FiniteSets, TLC

VARIABLES
    cloner,                 \* the shared WebsiteCloner: max_iterations, quality_threshold
    pc,                     \* position of the session in handler / clone_website
    cfg,                    \* the request's own max_iterations / quality_threshold
    scraped,                \* the properties of scraped_data the loop depends on
    cands,                  \* every markup returned by _generate_html / _simple_refine, in order
    html_content,           \* local html_content (index into cands, 0 = unset)
    best_html,              \* local best_html (index into cands, 0 = unset)
    best_similarity,        \* local best_similarity (a combined score)
    initial_content_score,  \* local initial_content_score
    initial_image_score,    \* local initial_image_score
    loopMax,                \* end of range(1, self.max_iterations + 1), fixed at loop entry
    iteration,              \* loop variable
    cur,                    \* visual_similarity / content_score / image_score of the iteration
    iteration_results,      \* local iteration_results
    renders,                \* number of render_generated_html calls made
    decided,                \* what the stop tests of the current iteration read from the cloner
    caught,                 \* what the inner except handler saw, when it ran
    final,                  \* scores of the final assessment
    result,                 \* the dict clone_website returned
    image_descriptions,     \* visual_context['image_descriptions'] handed to the classifier
    image_categories,       \* what filter_meaningful_images returned
    text_data,              \* scraped_data['text']: headings, buttons, navigation
    html,                   \* the markup handed to the two scorers
    content_checks,         \* passed_checks / total_checks of _simple_content_validation
    image_score,            \* what _validate_smart_image_implementation returned
    response_text,          \* the generator's response handed to _extract_html
    normalized,             \* what _extract_html returned, call after call
    current_html,           \* the markup handed to create_simple_refinement_prompt
    visual_similarity,      \* the visual score handed to create_simple_refinement_prompt
    refinement_prompt       \* what create_simple_refinement_prompt returned

vars == <<cloner, pc, cfg, scraped, cands, html_content, best_html, best_similarity,
          initial_content_score, initial_image_score, loopMax, iteration, cur,
          iteration_results, renders, decided, caught, final, result,
          image_descriptions, image_categories, text_data, html, content_checks,
          image_score, response_text, normalized, current_html, visual_similarity,
          refinement_prompt>>

\* the arguments and results of the normalizer and the prompt builder
drafting == <<response_text, normalized, current_html, visual_similarity,
              refinement_prompt>>

\* the arguments and results of the classifier, the two scorers, the
\* normalizer and the prompt builder, which are functions of their arguments
\* alone
scoring == <<image_descriptions, image_categories, text_data, html, content_checks,
             image_score, drafting>>

-----------------------------------------------------------------------------
(* Bounds and program constants *)

\* largest max_iterations a request asks for
MaxIterationsBound == 3

DefaultMaxIterations == 3
DefaultQualityThreshold == 850
LlmMaxIterations == 1
LlmQualityThreshold == 0
AssetAcceptFloor == 700
VisualWeight == 6
ContentWeight == 3
ImageWeight == 1
WeightScale == 10
RegressionNumerator == 8
RegressionDenominator == 10

None == [none |-> TRUE]

\* SSIM of two decodable images lies in [-1,1]
VisualScores == {-500, 400, 850}
RequestThresholds == {DefaultQualityThreshold}
RequestMaxIterations == 0..MaxIterationsBound

\* content / asset scores a generated document can have
DocumentProfiles ==
    {[content |-> 1000, asset |-> 1000], [content |-> 1000, asset |-> 700],
     [content |-> 800, asset |-> 1000], [content |-> 400, asset |-> 1000]}

\* what the generator's response text can be
RawResponses == {"document", "empty"}

\* reference screenshot of scraped_data: absent, present but undecodable, decodable
Screenshots == {"none", "bad", "ok"}

-----------------------------------------------------------------------------
(* Pure helpers *)

\* _extract_html: a response holding <html..</html> yields that document;
\* otherwise the stripped response text itself is returned (empty stays empty).
ExtractHtml(raw) ==
    CASE raw = "document" -> "document"
      [] raw = "prose"    -> "text"
      [] raw = "empty"    -> "empty"

\* content and asset score are pure functions of the markup and scraped_data:
\* the scores a markup of each kind can have
Profiles(kind) ==
    CASE kind = "document" -> DocumentProfiles
      [] kind = "text"     -> {[content |-> 400, asset |-> 0]}
      [] kind = "empty"    -> {[content |-> 0, asset |-> 0]}

\* the markups a generate call can return, generated during iteration it
Generated(it) ==
    UNION {{[kind |-> ExtractHtml(raw), content |-> p.content, asset |-> p.asset, gen_iter |-> it] :
                p \in Profiles(ExtractHtml(raw))} : raw \in RawResponses}

CombinedScore(v, c, a) == (VisualWeight * v + ContentWeight * c + ImageWeight * a) \div WeightScale

\* mutant: a candidate of equal combined score replaces the best so far
IsNewBestOrEqual(combined, best) == combined >= best

IsNewBest(combined, best) == combined > best

\* mutant: the accept test with a strict visual comparison
AcceptConditionStrict(v, a, threshold) == v > threshold /\ a > AssetAcceptFloor

AcceptCondition(v, a, threshold) == v >= threshold /\ a > AssetAcceptFloor

\* mutant: the guard also fires on equality
RegressionGuardNonStrict(c, c0) == c * RegressionDenominator <= c0 * RegressionNumerator

\* mutant: the guard compares against half of the initial content score
RegressionGuardHalf(c, c0) == c * 2 < c0

RegressionGuard(c, c0) == c * RegressionDenominator < c0 * RegressionNumerator

IterationsRemain(it, max) == it < max

\* the document of _create_error_page, as a value of the html field (the
\* other values are indexes into cands)
ErrorPage == 0

ErrorResult(msg) ==
    [success |-> FALSE, html |-> ErrorPage, error |-> msg, iterations |-> 0,
     visual_similarity |-> 0, content_completeness |-> 0, smart_image_score |-> 0]

-----------------------------------------------------------------------------
SessionInit ==
    /\ cloner = [max_iterations |-> DefaultMaxIterations,
                 quality_threshold |-> DefaultQualityThreshold]
    /\ pc = "idle"
    /\ cfg = None
    /\ scraped = None
    /\ cands = <<>>
    /\ html_content = 0
    /\ best_html = 0
    /\ best_similarity = 0
    /\ initial_content_score = 0
    /\ initial_image_score = 0
    /\ loopMax = 0
    /\ iteration = 0
    /\ cur = None
    /\ iteration_results = <<>>
    /\ renders = 0
    /\ decided = None
    /\ caught = None
    /\ final = None
    /\ result = None

\* no classifier or scorer call under study
ScoringIdle ==
    /\ image_descriptions = <<>>
    /\ image_categories = None
    /\ text_data = None
    /\ html = <<>>
    /\ content_checks = None
    /\ image_score = None

\* no normalizer or prompt builder call under study
DraftingIdle ==
    /\ response_text = <<>>
    /\ normalized = <<>>
    /\ current_html = <<>>
    /\ visual_similarity = 0
    /\ refinement_prompt = None

Init == SessionInit /\ ScoringIdle /\ DraftingIdle

locals == <<cands, html_content, best_html, best_similarity, initial_content_score,
            initial_image_score, loopMax, iteration, cur, iteration_results, renders,
            decided, caught, final, result>>

\* the session is suspended in an await that yields to the event loop and
\* after which clone_website still reads the cloner.  (What other requests
\* write before the session's handler configures the cloner is overwritten by
\* it; after the loop clone_website never reads the cloner again.)
Suspended == pc = "render"

-----------------------------------------------------------------------------
(* The session: main.py handlers, then clone_website *)

\* mutant: the except handler continues with the next iteration instead of breaking
LoopExceptContinues(source) ==
    /\ caught' = [iteration |-> iteration, best_html |-> best_html,
                  generated |-> Len(cands), source |-> source]
    /\ html_content' = best_html
    /\ pc' = "loop"

\* the except handler of the loop body: html_content = best_html; break
LoopExcept(source) ==
    /\ caught' = [iteration |-> iteration, best_html |-> best_html,
                  generated |-> Len(cands), source |-> source]
    /\ html_content' = best_html
    /\ pc' = "final_render"

\* mutant: the error dict carries the markup generated so far
ReturnErrorWithMarkup(msg) ==
    /\ result' = [ErrorResult(msg) EXCEPT !.html = html_content]
    /\ pc' = "done"

\* the outer except handler: return the error dict with the error page
ReturnError(msg) ==
    /\ result' = ErrorResult(msg)
    /\ pc' = "done"

\* handle_iterative_clone: configure the shared cloner from the request, call clone_website
HandleIterative(m, q, shot, textBad) ==
    /\ pc = "idle"
    /\ cloner' = [max_iterations |-> m, quality_threshold |-> q]
    /\ cfg' = [max_iterations |-> m, quality_threshold |-> q]
    /\ scraped' = [screenshot |-> shot, content_raises |-> textBad]
    /\ pc' = "validate"
    /\ UNCHANGED locals
    /\ UNCHANGED scoring

\* handle_llm_clone: configure the shared cloner for a single pass, call clone_website
HandleLlm(shot, textBad) ==
    /\ pc = "idle"
    /\ cloner' = [max_iterations |-> LlmMaxIterations, quality_threshold |-> LlmQualityThreshold]
    /\ cfg' = [max_iterations |-> LlmMaxIterations, quality_threshold |-> LlmQualityThreshold]
    /\ scraped' = [screenshot |-> shot, content_raises |-> textBad]
    /\ pc' = "validate"
    /\ UNCHANGED locals
    /\ UNCHANGED scoring

\* mutant: the screenshot is read but its absence is not tested
ValidateScreenshotUnchecked ==
    /\ pc = "validate"
    /\ pc' = "generate"
    /\ UNCHANGED <<cloner, cfg, scraped, cands, html_content, best_html, best_similarity,
                   initial_content_score, initial_image_score, loopMax, iteration, cur,
                   iteration_results, renders, decided, caught, final, result>>
    /\ UNCHANGED scoring

\* original_screenshot = ...; if not original_screenshot: raise
ValidateScreenshot ==
    /\ pc = "validate"
    /\ IF scraped.screenshot = "none"
         THEN ReturnError("No screenshot data available")
         ELSE pc' = "generate" /\ UNCHANGED result
    /\ UNCHANGED <<decided, cloner, cfg, scraped, cands, html_content, best_html, best_similarity,
                   initial_content_score, initial_image_score, loopMax, iteration, cur,
                   iteration_results, renders, caught, final>>
    /\ UNCHANGED scoring

\* html_content = await self._generate_html(scraped_data)
GenerateInitial ==
    /\ pc = "generate"
    /\ \/ /\ ReturnError("generate failed")
          /\ UNCHANGED <<cands, html_content>>
       \/ \E c \in Generated(0) :
            /\ cands' = Append(cands, c)
            /\ html_content' = Len(cands) + 1
            /\ pc' = "initial_score"
            /\ UNCHANGED result
    /\ UNCHANGED <<decided, cloner, cfg, scraped, best_html, best_similarity,
                   initial_content_score, initial_image_score, loopMax, iteration, cur,
                   iteration_results, renders, caught, final>>
    /\ UNCHANGED scoring

\* initial_content_score, initial_image_score, best_html, best_similarity,
\* iteration_results, and the range of the for loop
InitialScore ==
    /\ pc = "initial_score"
    /\ IF scraped.content_raises
         THEN /\ ReturnError("scorer failed")
              /\ UNCHANGED <<best_html, best_similarity, initial_content_score,
                             initial_image_score, loopMax, iteration, iteration_results>>
         ELSE /\ initial_content_score' = cands[html_content].content
              /\ initial_image_score' = cands[html_content].asset
              /\ best_html' = html_content
              /\ best_similarity' = 0
              /\ iteration_results' = <<>>
              /\ loopMax' = cloner.max_iterations
              /\ iteration' = 0
              /\ pc' = "loop"
              /\ UNCHANGED result
    /\ UNCHANGED <<decided, cloner, cfg, scraped, cands, html_content, cur, renders, caught, final>>
    /\ UNCHANGED scoring

\* mutant: the range of the loop is one too long
LoopNextOffByOne ==
    /\ pc = "loop"
    /\ IF iteration <= loopMax
         THEN iteration' = iteration + 1 /\ pc' = "render" /\ decided' = None
         ELSE iteration' = iteration /\ pc' = "final_render" /\ UNCHANGED decided
    /\ UNCHANGED <<cloner, cfg, scraped, cands, html_content, best_html, best_similarity,
                   initial_content_score, initial_image_score, loopMax, cur,
                   iteration_results, renders, caught, final, result>>
    /\ UNCHANGED scoring

\* for iteration in range(1, self.max_iterations + 1): next value, then the
\* call of render_generated_html, where the session is suspended
LoopNext ==
    /\ pc = "loop"
    /\ IF iteration < loopMax
         THEN iteration' = iteration + 1 /\ pc' = "render" /\ decided' = None
         ELSE iteration' = iteration /\ pc' = "final_render" /\ UNCHANGED decided
    /\ UNCHANGED <<cloner, cfg, scraped, cands, html_content, best_html, best_similarity,
                   initial_content_score, initial_image_score, loopMax, cur,
                   iteration_results, renders, caught, final, result>>
    /\ UNCHANGED scoring

\* rendered_screenshot = await render_generated_html(html_content): returns or raises
Render ==
    /\ pc = "render"
    /\ renders' = renders + 1
    /\ \/ pc' = "score" /\ UNCHANGED <<html_content, caught>>
       \/ LoopExcept("render")
    /\ UNCHANGED <<decided, cloner, cfg, scraped, cands, best_html, best_similarity,
                   initial_content_score, initial_image_score, loopMax, iteration, cur,
                   iteration_results, final, result>>
    /\ UNCHANGED scoring

\* the scores of the iteration, the best-so-far update and the ledger entry
ScoreWith(v) ==
    LET c == cands[html_content].content
        a == cands[html_content].asset
        combined == CombinedScore(v, c, a)
    IN  /\ cur' = [visual |-> v, content |-> c, image |-> a]
        /\ IF IsNewBest(combined, best_similarity)
             THEN best_html' = html_content /\ best_similarity' = combined
             ELSE UNCHANGED <<best_html, best_similarity>>
        /\ iteration_results' = Append(iteration_results,
                [iteration |-> iteration, cand |-> html_content, visual_similarity |-> v,
                 content_score |-> c, smart_image_score |-> a, combined_score |-> combined])
        /\ pc' = "decide"
        /\ UNCHANGED <<html_content, caught>>

\* compare_base64_images raises on an undecodable reference screenshot,
\* _simple_content_validation on a text inventory it cannot read
Score ==
    /\ pc = "score"
    /\ IF scraped.screenshot = "bad" \/ scraped.content_raises
         THEN /\ LoopExcept("scorer")
              /\ UNCHANGED <<cur, best_html, best_similarity, iteration_results>>
         ELSE \E v \in VisualScores : ScoreWith(v)
    /\ UNCHANGED <<decided, cloner, cfg, scraped, cands, initial_content_score, initial_image_score,
                   loopMax, iteration, renders, final, result>>
    /\ UNCHANGED scoring

\* the three tests that end the loop body
Decide ==
    /\ pc = "decide"
    /\ decided' = [iteration |-> iteration,
                   quality_threshold |-> cloner.quality_threshold,
                   max_iterations |-> cloner.max_iterations]
    /\ IF AcceptCondition(cur.visual, cur.image, cloner.quality_threshold)
         THEN pc' = "final_render" /\ UNCHANGED html_content
         ELSE IF RegressionGuard(cur.content, initial_content_score)
           THEN pc' = "final_render" /\ html_content' = best_html
           ELSE IF IterationsRemain(iteration, cloner.max_iterations)
             THEN pc' = "refine" /\ UNCHANGED html_content
             ELSE pc' = "loop" /\ UNCHANGED html_content
    /\ UNCHANGED <<cloner, cfg, scraped, cands, best_html, best_similarity,
                   initial_content_score, initial_image_score, loopMax, iteration, cur,
                   iteration_results, renders, caught, final, result>>
    /\ UNCHANGED scoring

\* mutant: the refined markup is not assigned to html_content
RefineResultDropped ==
    /\ pc = "refine"
    /\ \/ LoopExcept("generate") /\ UNCHANGED cands
       \/ \E c \in Generated(iteration) :
            /\ cands' = Append(cands, c)
            /\ html_content' = html_content
            /\ pc' = "loop"
            /\ UNCHANGED caught
    /\ UNCHANGED <<decided, cloner, cfg, scraped, best_html, best_similarity,
                   initial_content_score, initial_image_score, loopMax, iteration, cur,
                   iteration_results, renders, final, result>>
    /\ UNCHANGED scoring

\* html_content = await self._simple_refine(html_content, visual_similarity, iteration)
Refine ==
    /\ pc = "refine"
    /\ \/ LoopExcept("generate") /\ UNCHANGED cands
       \/ \E c \in Generated(iteration) :
            /\ cands' = Append(cands, c)
            /\ html_content' = Len(cands) + 1
            /\ pc' = "loop"
            /\ UNCHANGED caught
    /\ UNCHANGED <<decided, cloner, cfg, scraped, best_html, best_similarity,
                   initial_content_score, initial_image_score, loopMax, iteration, cur,
                   iteration_results, renders, final, result>>
    /\ UNCHANGED scoring

\* the except branch of the final assessment
FinalFallback ==
    [visual |-> best_similarity, content |-> initial_content_score,
     image |-> initial_image_score, fallback |-> TRUE]

\* mutant: the loop variable is reported as the iteration count
ReturnLoopVariable(f) ==
    /\ final' = f
    /\ result' = [success |-> TRUE, html |-> best_html, error |-> "",
                  iterations |-> iteration,
                  visual_similarity |-> f.visual,
                  content_completeness |-> f.content,
                  smart_image_score |-> f.image]
    /\ pc' = "done"

\* return {"success": True, "html": final_html, ...}, final_html being best_html
Return(f) ==
    /\ final' = f
    /\ result' = [success |-> TRUE, html |-> best_html, error |-> "",
                  iterations |-> Len(iteration_results),
                  visual_similarity |-> f.visual,
                  content_completeness |-> f.content,
                  smart_image_score |-> f.image]
    /\ pc' = "done"

\* final_screenshot = await render_generated_html(final_html): returns, or
\* raises into the bare except, after which the function returns
FinalRender ==
    /\ pc = "final_render"
    /\ renders' = renders + 1
    /\ \/ pc' = "final_score" /\ UNCHANGED <<final, result>>
       \/ Return(FinalFallback)
    /\ UNCHANGED <<decided, cloner, cfg, scraped, cands, html_content, best_html, best_similarity,
                   initial_content_score, initial_image_score, loopMax, iteration, cur,
                   iteration_results, caught>>
    /\ UNCHANGED scoring

\* final_similarity, final_content_score, final_image_score, and the return
FinalScore ==
    /\ pc = "final_score"
    /\ IF scraped.screenshot = "bad" \/ scraped.content_raises
         THEN Return(FinalFallback)
         ELSE \E v \in VisualScores :
                Return([visual |-> v, content |-> cands[best_html].content,
                        image |-> cands[best_html].asset, fallback |-> FALSE])
    /\ UNCHANGED <<decided, cloner, cfg, scraped, cands, html_content, best_html, best_similarity,
                   initial_content_score, initial_image_score, loopMax, iteration, cur,
                   iteration_results, renders, caught>>
    /\ UNCHANGED scoring

-----------------------------------------------------------------------------
(* Requests served concurrently on the same event loop.  Their handlers    *)
(* write the shared cloner before calling clone_website; everything else   *)
(* they touch is local to their own coroutine.                             *)

\* handle_iterative_clone of another request, run while the session is suspended
OtherIterative(m, q) ==
    /\ Suspended
    /\ cloner' = [max_iterations |-> m, quality_threshold |-> q]
    /\ UNCHANGED <<pc, cfg, scraped>>
    /\ UNCHANGED locals
    /\ UNCHANGED scoring

\* handle_llm_clone of another request, run while the session is suspended
OtherLlm ==
    /\ Suspended
    /\ cloner' = [max_iterations |-> LlmMaxIterations, quality_threshold |-> LlmQualityThreshold]
    /\ UNCHANGED <<pc, cfg, scraped>>
    /\ UNCHANGED locals
    /\ UNCHANGED scoring

-----------------------------------------------------------------------------
Next ==
    \/ \E m \in RequestMaxIterations, q \in RequestThresholds,
          shot \in Screenshots, textBad \in BOOLEAN : HandleIterative(m, q, shot, textBad)
    \/ \E shot \in Screenshots, textBad \in BOOLEAN : HandleLlm(shot, textBad)
    \/ ValidateScreenshot
    \/ GenerateInitial
    \/ InitialScore
    \/ LoopNext
    \/ Render
    \/ Score
    \/ Decide
    \/ Refine
    \/ FinalRender
    \/ FinalScore
    \/ \E m \in RequestMaxIterations, q \in RequestThresholds : OtherIterative(m, q)
    \/ OtherLlm

Spec == Init /\ [][Next]_vars

\* the steps of clone_website once the handler has called it
SessionStep ==
    \/ ValidateScreenshot
    \/ GenerateInitial
    \/ InitialScore
    \/ LoopNext
    \/ Render
    \/ Score
    \/ Decide
    \/ Refine
    \/ FinalRender
    \/ FinalScore

-----------------------------------------------------------------------------
(* Properties *)

Done == pc = "done"
Succeeded == pc = "done" /\ result.success
Scored == {iteration_results[k] : k \in 1..Len(iteration_results)}

\* content(i) < 0.8 * content(0), content(0) the score of the iteration-0 candidate
Regressed(r) == r.content_score * 10 < cands[1].content * 8

\* 0.6*visual + 0.3*content + 0.1*asset of a ledger entry, in thousandths
Combined(r) ==
    (6 * r.visual_similarity + 3 * r.content_score + r.smart_image_score) \div 10

\* C1: when an iteration i >= 2 scores a candidate whose content score is
\* below 0.8 times the iteration-0 candidate's, the markup returned is an
\* earlier candidate's, never that candidate's.
C1_RegressedCandidateNotReturned ==
    Succeeded =>
        \A r \in Scored : (r.iteration >= 2 /\ Regressed(r)) => result.html < r.cand

\* C2: a candidate scored at iteration i with content < 0.8 * content(0) ends
\* the loop at iteration i: the loop variable stays at i, no markup is
\* generated in or after iteration i, no later iteration is recorded, and the
\* reported iteration count is i.
C2_RegressionStopsLoop ==
    \A r \in Scored : Regressed(r) =>
        /\ iteration = r.iteration
        /\ Len(iteration_results) = r.iteration
        /\ pc /= "refine"
        /\ \A j \in 1..Len(cands) : cands[j].gen_iter < r.iteration
        /\ Done => (result.success /\ result.iterations = r.iteration)

\* the regression guard has fired at iteration 2 of a session that had a third
\* iteration available, and the session has returned
C2_Witness ==
    /\ Succeeded
    /\ loopMax = 3
    /\ cloner.max_iterations = 3
    /\ \E r \in Scored : r.iteration = 2 /\ Regressed(r) /\ r.visual_similarity < 0

\* C3: in every successful session the content score of the returned markup
\* is at least 0.8 times the content score of the iteration-0 candidate.
C3_ReturnedContentPreserved ==
    Succeeded => cands[result.html].content * 10 >= cands[1].content * 8

\* C4: a candidate scored at iteration i with visual >= quality_threshold
\* (the threshold the cloner holds when the iteration is decided) and
\* asset > 0.7 ends the loop after iteration i whatever max_iterations is: no
\* refinement follows, no later iteration runs and the reported iteration
\* count is i.
C4_EarlyAcceptStopsLoop ==
    decided /= None =>
        LET r == iteration_results[decided.iteration] IN
        (r.visual_similarity >= decided.quality_threshold /\ r.smart_image_score > 700)
        => /\ Len(iteration_results) = r.iteration
           /\ iteration = r.iteration
           /\ pc \in {"final_render", "final_score", "done"}
           /\ \A j \in 1..Len(cands) : cands[j].gen_iter < r.iteration
           /\ Done => (result.success /\ result.iterations = r.iteration)

\* iteration 1 was accepted at visual = threshold in a session configured for
\* three iterations, and the session returned after that one iteration
C4_Witness ==
    /\ Succeeded
    /\ cfg.max_iterations = 3
    /\ decided /= None
    /\ decided.max_iterations = 3
    /\ decided.iteration = 1
    /\ iteration_results[1].visual_similarity = decided.quality_threshold
    /\ iteration_results[1].smart_image_score > 700
    /\ result.iterations = 1

\* C5: the markup returned by a successful session is the earliest scored
\* candidate of maximal combined score, and the iteration-0 candidate when no
\* scored candidate has a combined score above 0.
C5_BestSoFarReturned ==
    Succeeded =>
        IF \E r \in Scored : Combined(r) > 0
          THEN \E r \in Scored :
                 /\ result.html = r.cand
                 /\ \A o \in Scored : Combined(o) <= Combined(r)
                 /\ \A o \in Scored : o.iteration < r.iteration => Combined(o) < Combined(r)
          ELSE result.html = 1

\* a later candidate won, an equal-scoring still later one did not replace it
C5_Witness ==
    /\ Succeeded
    /\ result.html = 2
    /\ Len(iteration_results) = 3
    /\ Combined(iteration_results[3]) = Combined(iteration_results[2])
    /\ iteration_results[3].cand = 3

\* no scored candidate has a positive combined score: the iteration-0 candidate is returned
C5_WitnessNonePositive ==
    /\ Succeeded
    /\ Len(iteration_results) >= 2
    /\ \A r \in Scored : Combined(r) <= 0
    /\ result.html = 1
\* C6: every accept decision and every 'iterations remain' decision of the
\* session comes out as the quality_threshold and max_iterations of the
\* session's own request make it, whatever other requests do meanwhile.
C6_DecisionsUseSessionConfig ==
    decided /= None =>
        LET r == iteration_results[decided.iteration]
            acceptOwn == r.visual_similarity >= cfg.quality_threshold
                         /\ r.smart_image_score > 700
            acceptRead == r.visual_similarity >= decided.quality_threshold
                          /\ r.smart_image_score > 700
        IN  /\ acceptOwn = acceptRead
            /\ (~acceptRead /\ ~Regressed(r)) =>
                 ((decided.iteration < cfg.max_iterations)
                    = (decided.iteration < decided.max_iterations))

\* C7: when render, a scorer or the refinement generate call raises during
\* iteration i, the loop ends there (the loop variable stays at i and no
\* further markup is generated), and the session returns success = true with
\* the best-so-far markup held when the failure occurred.
C7_IterationFailureFallsBack ==
    caught /= None =>
        /\ iteration = caught.iteration
        /\ Len(cands) = caught.generated
        /\ best_html = caught.best_html
        /\ pc \in {"final_render", "final_score", "done"}
        /\ Done => (result.success /\ result.html = caught.best_html)

\* the refinement call of iteration 2 raised with iterations left, a refined
\* candidate being the best so far, and the session returned it
C7_Witness ==
    /\ Succeeded
    /\ caught /= None
    /\ caught.source = "generate"
    /\ caught.iteration = 2
    /\ loopMax = 3
    /\ caught.best_html = 2
    /\ result.html = 2

\* C8: without a reference screenshot clone_website makes no generate and no
\* render call and returns success = false with an error message and the
\* synthesized error document.
C8_NoScreenshotIsFatal ==
    (scraped /= None /\ scraped.screenshot = "none") =>
        /\ Len(cands) = 0
        /\ renders = 0
        /\ pc \in {"validate", "done"}
        /\ Done => (~result.success /\ result.error /= "" /\ result.html = ErrorPage)

\* a session without reference screenshot has returned
C8_Witness ==
    /\ Done
    /\ scraped.screenshot = "none"
    /\ ~result.success

\* C9: the html of every result is a non-empty standalone document; on
\* failure it is the synthesized error document.
C9_HtmlAlwaysDocument ==
    Done =>
        IF result.success
          THEN result.html /= ErrorPage /\ cands[result.html].kind = "document"
          ELSE result.html = ErrorPage

\* C10: a scorer that cannot compute its score never makes the session end
\* with success = false.
C10_ScorerFailureNotFatal ==
    Done => ~(~result.success /\ result.error = "scorer failed")

\* C11: when the final re-score fails, the reported visual_similarity,
\* content_completeness and asset score are the scores recorded in the loop
\* for the returned best-so-far candidate.
C11_FallbackReportsBestScores ==
    (Succeeded /\ final.fallback /\ \E r \in Scored : r.cand = result.html) =>
        \E r \in Scored :
            /\ r.cand = result.html
            /\ result.visual_similarity = r.visual_similarity
            /\ result.content_completeness = r.content_score
            /\ result.smart_image_score = r.smart_image_score

\* the numbers of scoring iterations, render calls in the loop and generate
\* calls stay within what the session's max_iterations allows
C12_Bounds ==
    cfg /= None =>
        /\ iteration <= cfg.max_iterations
        /\ Len(iteration_results) <= cfg.max_iterations
        /\ renders <= cfg.max_iterations + 1
        /\ Len(cands) <= cfg.max_iterations + 1

StepsLeft ==
    CASE pc = "idle"          -> 0
      [] pc = "validate"      -> 5 * cfg.max_iterations + 6
      [] pc = "generate"      -> 5 * cfg.max_iterations + 5
      [] pc = "initial_score" -> 5 * cfg.max_iterations + 4
      [] pc = "render"        -> 5 * (cfg.max_iterations - iteration) + 7
      [] pc = "score"         -> 5 * (cfg.max_iterations - iteration) + 6
      [] pc = "decide"        -> 5 * (cfg.max_iterations - iteration) + 5
      [] pc = "refine"        -> 5 * (cfg.max_iterations - iteration) + 4
      [] pc = "loop"          -> 5 * (cfg.max_iterations - iteration) + 3
      [] pc = "final_render"  -> 2
      [] pc = "final_score"   -> 1
      [] pc = "done"          -> 0

-----------------------------------------------------------------------------
(* Strings.  A string is the sequence of its fragments; '/' is always a    *)
(* fragment of its own, and so is every text a test of the program looks   *)
(* for.                                                                    *)

\* str.lower() of one fragment
LowerFragment(t) ==
    CASE t = "Logo"    -> "logo"
      [] t = "<!DOCTYPE html>" -> "<!doctype html>"
      [] t = "</HTML>" -> "</html>"
      [] t = "LOGO"    -> "logo"
      [] t = "Acme"    -> "acme"
      [] t = "Hero"    -> "hero"
      [] t = "Banner"  -> "banner"
      [] t = "Welcome" -> "welcome"
      [] t = "Pricing" -> "pricing"
      [] t = "About"   -> "about"
      [] t = "Sign"    -> "sign"
      [] t = "Up"      -> "up"
      [] t = "Buy"     -> "buy"
      [] t = "Now"     -> "now"
      [] t = "Home"    -> "home"
      [] t = "Docs"    -> "docs"
      [] t = "Blog"    -> "blog"
      [] t = "Go"      -> "go"
      [] t = "Start"   -> "start"
      [] t = "Join"    -> "join"
      [] t = "<NAV"    -> "<nav"
      [] t = "onClick=\"return false;\"" -> "onclick=\"return false;\""
      [] OTHER         -> t

\* s.lower()
Lower(s) == [i \in DOMAIN s |-> LowerFragment(s[i])]

\* needle in s
Contains(needle, s) ==
    \E i \in 0..(Len(s) - Len(needle)) :
        \A j \in 1..Len(needle) : s[i + j] = needle[j]

\* s.startswith(prefix)
StartsWith(s, prefix) ==
    /\ Len(prefix) <= Len(s)
    /\ \A j \in 1..Len(prefix) : s[j] = prefix[j]

\* s.split('/')[-1]
LastSegment(s) ==
    LET slashes == {i \in DOMAIN s : s[i] = "/"}
        last == IF slashes = {} THEN 0 ELSE CHOOSE i \in slashes : \A k \in slashes : k <= i
    IN  SubSeq(s, last + 1, Len(s))

-----------------------------------------------------------------------------
(* filter_meaningful_images *)

MaxImages == 3

IconMaxSide == 32
LogoMaxWidth == 200
LogoMaxHeight == 100
LogoMaxTop == 200
DefaultTop == 999
ContentMinSide == 100
PlaceholderWidth == 400
PlaceholderHeight == 300

ContentIndicators == {<<"product">>, <<"feature">>, <<"hero">>, <<"banner">>, <<"main">>}

LogoUrl  == <<"https:", "/", "/", "cdn.acme.com", "/", "img", "/", "Logo", ".png">>
PhotoUrl == <<"https:", "/", "/", "cdn.acme.com", "/", "img", "/", "team.jpg">>
DataUri  == <<"data:", "image", "/", "png;base64,AAAA">>

\* width and height of the bounding rectangle
ImageSizes == {<<32, 32>>, <<32, 33>>, <<50, 50>>, <<199, 99>>, <<200, 99>>, <<99, 100>>}

\* the rest of a descriptor: src, alt, position (None when the key is
\* missing) and context
ImageLooks ==
    { [src |-> PhotoUrl, alt |-> <<>>, position |-> None, context |-> <<>>],
      [src |-> PhotoUrl, alt |-> <<>>, position |-> [top |-> 199], context |-> <<>>],
      [src |-> PhotoUrl, alt |-> <<>>, position |-> [top |-> 200],
       context |-> <<"Hero", " ", "Banner">>] }

Descriptor(size, look) ==
    [src |-> look.src, alt |-> look.alt, width |-> size[1], height |-> size[2],
     position |-> look.position, context |-> look.context]

\* the descriptors of the scraper's image_regions that lists are drawn from
ImageSet ==
    { Descriptor(size, look) : size \in ImageSizes, look \in ImageLooks }
    \cup { Descriptor(<<32, 32>>,
             [src |-> LogoUrl, alt |-> <<>>, position |-> [top |-> 200], context |-> <<>>]),
           Descriptor(<<50, 50>>,
             [src |-> PhotoUrl, alt |-> <<"Acme", " ", "LOGO">>, position |-> [top |-> 200],
              context |-> <<>>]),
           Descriptor(<<300, 200>>,
             [src |-> LogoUrl, alt |-> <<>>, position |-> [top |-> 200], context |-> <<>>]),
           Descriptor(<<50, 50>>,
             [src |-> DataUri, alt |-> <<>>, position |-> [top |-> -40], context |-> <<>>]),
           Descriptor(<<0, 0>>,
             [src |-> <<>>, alt |-> <<>>, position |-> None, context |-> <<>>]) }

ImageLists == UNION { [1..n -> ImageSet] : n \in 0..MaxImages }

\* src if src and not src.startswith('data:') else the picsum placeholder
ActualUrl(img) ==
    IF img.src /= <<>> /\ ~StartsWith(img.src, <<"data:">>)
      THEN img.src
      ELSE <<"https:", "/", "/", "picsum.photos", "/",
             ToString(IF img.width > 0 THEN img.width ELSE PlaceholderWidth), "/",
             ToString(IF img.height > 0 THEN img.height ELSE PlaceholderHeight)>>

\* img.get('position', {}).get('top', 999)
Top(img) == IF img.position = None THEN DefaultTop ELSE img.position.top

\* mutant: the icon rule is tested after the logo rule
SuggestedTypeLogoFirst(img) ==
    LET alt == Lower(img.alt)
        context == Lower(img.context)
    IN  IF \/ Contains(<<"logo">>, alt)
           \/ Contains(<<"logo">>, Lower(img.src))
           \/ (img.width < LogoMaxWidth /\ img.height < LogoMaxHeight /\ Top(img) < LogoMaxTop)
          THEN "logo"
        ELSE IF img.width <= IconMaxSide /\ img.height <= IconMaxSide
          THEN "icon"
        ELSE IF img.width >= ContentMinSide \/ img.height >= ContentMinSide
          THEN "content"
        ELSE IF \E indicator \in ContentIndicators : Contains(indicator, context)
          THEN "content"
        ELSE "icon"

\* the if / elif / else chain of the loop body
SuggestedType(img) ==
    LET alt == Lower(img.alt)
        context == Lower(img.context)
    IN  IF img.width <= IconMaxSide /\ img.height <= IconMaxSide
          THEN "icon"
        ELSE IF \/ Contains(<<"logo">>, alt)
                \/ Contains(<<"logo">>, Lower(img.src))
                \/ (img.width < LogoMaxWidth /\ img.height < LogoMaxHeight
                    /\ Top(img) < LogoMaxTop)
          THEN "logo"
        ELSE IF img.width >= ContentMinSide \/ img.height >= ContentMinSide
          THEN "content"
        ELSE IF \E indicator \in ContentIndicators : Contains(indicator, context)
          THEN "content"
        ELSE "icon"

\* img_data: the descriptor with actual_url, area and suggested_type; n is
\* the place of the descriptor in the list the classifier was given
ImgData(img, n) ==
    [src |-> img.src, alt |-> img.alt, width |-> img.width, height |-> img.height,
     position |-> img.position, context |-> img.context,
     actual_url |-> ActualUrl(img), area |-> img.width * img.height,
     suggested_type |-> SuggestedType(img), n |-> n]

\* mutant: the last branch sets suggested_type but does not append
AppendedUnlessPlainIcon(imgs, type) ==
    LET data == [n \in DOMAIN imgs |-> ImgData(imgs[n], n)]
    IN  SelectSeq(data, LAMBDA d :
            /\ d.suggested_type = type
            /\ ~(type = "icon" /\ (d.width > IconMaxSide \/ d.height > IconMaxSide)))

\* the list the loop has appended the img_data of one suggested_type to
Appended(imgs, type) ==
    LET data == [n \in DOMAIN imgs |-> ImgData(imgs[n], n)]
    IN  SelectSeq(data, LAMBDA d : d.suggested_type = type)

\* s with d inserted behind every element of at least d's area
RECURSIVE InsertByArea(_, _)
InsertByArea(s, d) ==
    IF s = <<>> THEN <<d>>
    ELSE IF Head(s).area >= d.area THEN <<Head(s)>> \o InsertByArea(Tail(s), d)
    ELSE <<d>> \o s

\* list.sort(key=lambda x: x['area'], reverse=True): stable
RECURSIVE SortByArea(_)
SortByArea(s) ==
    IF s = <<>> THEN <<>>
    ELSE InsertByArea(SortByArea(SubSeq(s, 1, Len(s) - 1)), s[Len(s)])

\* the dict filter_meaningful_images returns
FilterMeaningfulImages(imgs) ==
    [meaningful_images |-> SortByArea(Appended(imgs, "content")),
     logos |-> SortByArea(Appended(imgs, "logo")),
     tiny_icons |-> Appended(imgs, "icon")]

\* a list of descriptors is chosen
ClassifierInit ==
    /\ SessionInit
    /\ DraftingIdle
    /\ image_descriptions \in ImageLists
    /\ image_categories = None
    /\ text_data = None
    /\ html = <<>>
    /\ content_checks = None
    /\ image_score = None

session == <<cloner, pc, cfg, scraped, cands, html_content, best_html, best_similarity,
             initial_content_score, initial_image_score, loopMax, iteration, cur,
             iteration_results, renders, decided, caught, final, result>>

\* image_categories = self.filter_meaningful_images(image_descriptions)
Classify ==
    /\ image_categories = None
    /\ image_categories' = FilterMeaningfulImages(image_descriptions)
    /\ UNCHANGED <<image_descriptions, text_data, html, content_checks, image_score>>
    /\ UNCHANGED drafting
    /\ UNCHANGED session

ClassifierSpec == ClassifierInit /\ [][Classify]_vars

-----------------------------------------------------------------------------
(* Properties of the classifier *)

Classified == image_categories /= None

TierNames == {"meaningful_images", "logos", "tiny_icons"}

\* the places of the result in which the n-th input descriptor appears
PlacesOf(n) ==
    { <<t, k>> \in TierNames \X (1..Len(image_descriptions)) :
        /\ k <= Len(image_categories[t])
        /\ image_categories[t][k].n = n }

\* C13: filter_meaningful_images places each input image in exactly one of
\* the three tiers it returns, unchanged; none is dropped or duplicated, and
\* the tier sizes sum to the input length.
C13_ClassifierPartition ==
    Classified =>
        /\ \A n \in DOMAIN image_descriptions :
             /\ Cardinality(PlacesOf(n)) = 1
             /\ \A p \in PlacesOf(n) :
                  LET d == image_categories[p[1]][p[2]]
                  IN  Descriptor(<<d.width, d.height>>, d) = image_descriptions[n]
        /\ Len(image_categories.meaningful_images) + Len(image_categories.logos)
             + Len(image_categories.tiny_icons) = Len(image_descriptions)

\* three images, the first two the same descriptor, spread over all three tiers
C13_Witness ==
    /\ Classified
    /\ Len(image_descriptions) = MaxImages
    /\ image_descriptions[1] = image_descriptions[2]
    /\ Len(image_categories.logos) = 2
    /\ Len(image_categories.tiny_icons) + Len(image_categories.meaningful_images) = 1

SortedByAreaDescending(tier) ==
    \A i, j \in DOMAIN tier :
        i < j => tier[i].width * tier[i].height >= tier[j].width * tier[j].height

\* C14: each of the three tiers of the result is sorted by descending area.
C14_TiersSortedByArea ==
    Classified => \A t \in TierNames : SortedByAreaDescending(image_categories[t])

ContainsLogo(text) == Contains(<<"logo">>, Lower(text))

\* the tier the rule cascade of the claim gives an image
CascadeTier(img) ==
    LET small == img.width <= 32 /\ img.height <= 32
        nearTop == img.position /= None /\ img.position.top < 200
        logo == \/ ContainsLogo(img.alt)
                \/ ContainsLogo(img.src)
                \/ (img.width < 200 /\ img.height < 100 /\ nearTop)
        large == img.width >= 100 \/ img.height >= 100
        told == \E word \in {"product", "feature", "hero", "banner", "main"} :
                    Contains(<<word>>, Lower(img.context))
    IN  CASE small                                          -> "tiny_icons"
          [] ~small /\ logo                                 -> "logos"
          [] ~small /\ ~logo /\ large                       -> "meaningful_images"
          [] ~small /\ ~logo /\ ~large /\ told              -> "meaningful_images"
          [] ~small /\ ~logo /\ ~large /\ ~told             -> "tiny_icons"

\* C15: the tier of each image is that of the first matching rule: icon when
\* width <= 32 and height <= 32 even with 'logo' in alt or URL; else logo when
\* alt or URL contains 'logo' or the image is small and near the top (a
\* missing position is not near the top); else content when a side is >= 100;
\* else content when the context names product/feature/hero/banner/main; else
\* icon.
C15_RuleCascade ==
    Classified =>
        \A t \in TierNames : \A k \in DOMAIN image_categories[t] :
            /\ CascadeTier(image_descriptions[image_categories[t][k].n]) = t
            /\ image_categories[t][k].suggested_type =
                 (CASE t = "tiny_icons" -> "icon" [] t = "logos" -> "logo"
                    [] t = "meaningful_images" -> "content")

\* an icon-sized image with 'logo' in its URL is an icon, a small image
\* without position is not a logo, and a small image is content by its context
C15_Witness ==
    /\ Classified
    /\ \E d \in {image_categories.tiny_icons[k] : k \in DOMAIN image_categories.tiny_icons} :
         ContainsLogo(d.src) /\ d.width = 32
    /\ \E d \in {image_categories.tiny_icons[k] : k \in DOMAIN image_categories.tiny_icons} :
         d.position = None /\ d.width = 50
    /\ \E d \in {image_categories.meaningful_images[k] :
                    k \in DOMAIN image_categories.meaningful_images} :
         d.width = 50 /\ d.height = 50

-----------------------------------------------------------------------------
(* _simple_content_validation *)

ItemLimit == 8
MinItemLength == 2
StructureChecks == 2

\* the number of characters of a fragment of an inventory item
FragmentWidth(t) ==
    CASE t = " " -> 1 [] t = "Go" -> 2 [] t = "Up" -> 2 [] t = "Buy" -> 3 [] t = "Now" -> 3
      [] t = "Sign" -> 4 [] t = "Home" -> 4 [] t = "Docs" -> 4 [] t = "Blog" -> 4
      [] t = "About" -> 5 [] t = "Welcome" -> 7 [] t = "Pricing" -> 7
      [] t = "team" -> 4 [] t = "jobs" -> 4 [] t = "help" -> 4 [] t = "press" -> 5
      [] t = "legal" -> 5 [] t = "login" -> 5 [] t = "Start" -> 5 [] t = "Join" -> 4
      [] t = "contact" -> 7 [] t = "support" -> 7

\* len(s)
RECURSIVE StrLen(_)
StrLen(s) == IF s = <<>> THEN 0 ELSE FragmentWidth(Head(s)) + StrLen(Tail(s))

\* s.strip()
RECURSIVE Strip(_)
Strip(s) ==
    IF s = <<>> THEN s
    ELSE IF Head(s) = " " THEN Strip(Tail(s))
    ELSE IF s[Len(s)] = " " THEN Strip(SubSeq(s, 1, Len(s) - 1))
    ELSE s

\* mutant: the list is not cut to its first eight items
FirstItemsUncut(items) == items

\* items[:8]
FirstItems(items) == SubSeq(items, 1, IF Len(items) < ItemLimit THEN Len(items) ELSE ItemLimit)

\* if item and len(item.strip()) > 2
Counted(item) == item /= <<>> /\ StrLen(Strip(item)) > MinItemLength

\* mutant: the containment test is not nested in the length test
ItemChecksUnnested(items, markup) ==
    LET first == FirstItems(items)
        counted == {i \in DOMAIN first : Counted(first[i])}
    IN  [total |-> Cardinality(counted),
         passed |-> Cardinality({i \in DOMAIN first :
                                   Contains(Lower(first[i]), Lower(markup))})]

\* the total_checks and passed_checks one of the three loops adds
ItemChecks(items, markup) ==
    LET first == FirstItems(items)
        counted == {i \in DOMAIN first : Counted(first[i])}
    IN  [total |-> Cardinality(counted),
         passed |-> Cardinality({i \in counted : Contains(Lower(first[i]), Lower(markup))})]

NoOpClick == "onclick=\"return false;\""

\* mutant: the handler text is looked for in html_lower
NeutralizedCheckLower(markup) == Contains(<<NoOpClick>>, Lower(markup))

\* 'onclick="return false;"' in html
NeutralizedCheck(markup) == Contains(<<NoOpClick>>, markup)

\* any(tag in html_lower for tag in ['<nav', '<header', '<footer', '<main'])
LandmarkCheck(markup) ==
    \E tag \in {"<nav", "<header", "<footer", "<main"} : Contains(<<tag>>, Lower(markup))

\* passed_checks and total_checks at the return statement
ContentChecks(markup, text) ==
    LET h == ItemChecks(text.headings, markup)
        b == ItemChecks(text.buttons, markup)
        n == ItemChecks(text.navigation, markup)
    IN  [total |-> h.total + b.total + n.total + StructureChecks,
         passed |-> h.passed + b.passed + n.passed
                      + (IF NeutralizedCheck(markup) THEN 1 ELSE 0)
                      + (IF LandmarkCheck(markup) THEN 1 ELSE 0)]

\* passed_checks / max(total_checks, 1), in thousandths
ContentScore(checks) == (checks.passed * 1000) \div (IF checks.total > 1 THEN checks.total ELSE 1)

Welcome == <<"Welcome">>
SignUp == <<"Sign", " ", "Up">>
BuyNow == <<"Buy", " ", "Now">>
NineLabels == <<<<"Home">>, <<"Docs">>, <<"Blog">>, <<"About">>, <<"Pricing">>, <<"Buy">>,
                <<"Sign">>, <<"Now">>, Welcome>>

\* scraped_data['text'] of the sources studied
Inventories ==
    [headings : {<<>>, <<Welcome>>, <<Welcome, <<"Go">>, <<>>, <<"About">>>>},
     buttons : {<<>>, <<SignUp, BuyNow>>, <<<<" ", "Go", " ">>, <<"Buy">>>>},
     navigation : {<<>>, <<<<"Pricing">>, <<"About">>>>, NineLabels}]

\* pieces of markup as _fix_html leaves them: a double-quoted href is "#"
\* with the no-op handler, a button has an onclick and a form an onsubmit
Element(open, attrs, text, close) == <<open>> \o attrs \o <<">">> \o text \o <<close>>

HeadingPieces ==
    {<<>>, Element("<h1", <<>>, Welcome, "</h1>"), Element("<h1", <<>>, <<"welcome">>, "</h1>")}

LinkPieces ==
    {<<>>,
     Element("<a", <<"href=\"#\"", NoOpClick>>, <<"Pricing">>, "</a>"),
     Element("<a", <<"href='/pricing'">>, <<"Pricing">>, "</a>"),
     Element("<a", <<"href=\"#\"", NoOpClick>>, <<"Pricing">>, "</a>")
        \o Element("<button", <<"onclick=\"buy()\"">>, SignUp, "</button>"),
     Element("<a", <<"href=\"#\"", "onclick='return false;'">>, <<"Pricing">>, "</a>"),
     Element("<a", <<"href=\"#\"", "onClick=\"return false;\"">>, <<"Pricing">>, "</a>"),
     Element("<div", <<NoOpClick>>, <<"About">>, "</div>")
        \o Element("<form", <<"onsubmit=\"return false;\"", "action=\"/buy\"">>, BuyNow,
                   "</form>")}

LandmarkPieces ==
    {<<>>,
     Element("<NAV", <<>>, <<"Home", " ", "Docs", " ", "Blog">>, "</NAV>"),
     Element("<footer", <<>>, <<"Now">>, "</footer>")}

\* the candidate markups handed to the content scorer
ContentCandidates ==
    {h \o l \o m : h \in HeadingPieces, l \in LinkPieces, m \in LandmarkPieces}

\* a source inventory and a candidate markup are chosen
ContentInit ==
    /\ SessionInit
    /\ DraftingIdle
    /\ image_descriptions = <<>>
    /\ image_categories = None
    /\ text_data \in Inventories
    /\ html \in ContentCandidates
    /\ content_checks = None
    /\ image_score = None

\* content_score = self._simple_content_validation(html_content, scraped_data)
ValidateContent ==
    /\ text_data /= None
    /\ content_checks = None
    /\ content_checks' = ContentChecks(html, text_data)
    /\ UNCHANGED <<image_descriptions, image_categories, text_data, html, image_score>>
    /\ UNCHANGED drafting
    /\ UNCHANGED session

ContentSpec == ContentInit /\ [][ValidateContent]_vars

-----------------------------------------------------------------------------
(* Properties of the content scorer *)

NoItems(text) == text.headings = <<>> /\ text.buttons = <<>> /\ text.navigation = <<>>

\* C16: _simple_content_validation returns passed/total with
\* 0 <= passed <= total and total >= 2, a value in [0,1]; with an empty
\* source inventory the total is exactly 2.
C16_ContentScoreBounds ==
    content_checks /= None =>
        /\ 0 <= content_checks.passed
        /\ content_checks.passed <= content_checks.total
        /\ content_checks.total >= 2
        /\ ContentScore(content_checks) \in 0..1000
        /\ NoItems(text_data) => content_checks.total = 2

\* an empty inventory scored 2/2, and a non-empty one scored 0/total
C16_Witness ==
    /\ content_checks /= None
    /\ \/ NoItems(text_data) /\ content_checks.passed = 2
       \/ ~NoItems(text_data) /\ content_checks.passed = 0 /\ content_checks.total > 2

\* the places of the markup where an actionable element opens
Actionable == {i \in DOMAIN html : html[i] \in {"<a", "<button", "<form"}}

\* the attributes of the element opened at place i
AttributesAt(i) ==
    LET end == CHOOSE j \in i..Len(html) :
                 html[j] = ">" /\ \A k \in i..(j - 1) : html[k] /= ">"
    IN  {html[k] : k \in (i + 1)..(end - 1)}

\* the element has a handler that cancels its action
Inert(i) ==
    AttributesAt(i) \cap {NoOpClick, "onclick='return false;'", "onClick=\"return false;\"",
                          "onsubmit=\"return false;\"", "disabled"} /= {}

\* what the count of passed checks says of check (a), the landmark check and
\* the item checks being known
NeutralizedPassed ==
    content_checks.passed
      - ItemChecks(text_data.headings, html).passed
      - ItemChecks(text_data.buttons, html).passed
      - ItemChecks(text_data.navigation, html).passed
      - (IF LandmarkCheck(html) THEN 1 ELSE 0) = 1

\* C17 as claimed: check (a) passes only when every actionable element is
\* inert; a candidate with an actionable element that is not inert fails it.
C17_LiveElementFailsCheck ==
    (content_checks /= None /\ \E i \in Actionable : ~Inert(i)) => ~NeutralizedPassed

\* C17 (amended): check (a) passes exactly when some element of the
\* candidate, actionable or not, carries the attribute onclick="return false;"
\* written exactly so.
C17_PassesIffHandlerTextPresent ==
    content_checks /= None =>
        (NeutralizedPassed <=>
            \E i \in DOMAIN html :
                /\ html[i] \in {"<a", "<button", "<form", "<div", "<h1", "<NAV", "<footer"}
                /\ NoOpClick \in AttributesAt(i))

\* check (a) passed on a candidate with a live button, and failed on one
\* whose only link is inert by a handler in single quotes
C17_Witness ==
    /\ content_checks /= None
    /\ \/ NeutralizedPassed /\ \E i \in Actionable : ~Inert(i)
       \/ ~NeutralizedPassed /\ Actionable /= {} /\ \A i \in Actionable : Inert(i)

-----------------------------------------------------------------------------
(* _validate_smart_image_implementation.  Awards are counted in tenths of  *)
(* an image, the score in thousandths.                                     *)

FullAward == 10
PartialAward == 8
GlyphAward == 1
GlyphBonusCap == 5

\* the number of characters of a fragment that the class
\* [U+2699 U+FE0F U+1F50D ... U+2713 ... U+25C4] of the findall matches; the
\* variation selector U+FE0F is a character of the class
ClassMatches(t) ==
    CASE t = "U+2699 U+FE0F" -> 2
      [] t = "U+2713"        -> 1
      [] t = "U+2600 U+FE0F" -> 1
      [] t = "U+25B6 U+FE0F" -> 2
      [] OTHER               -> 0

\* len(re.findall(r'[...]', html))
RECURSIVE UnicodeIcons(_)
UnicodeIcons(markup) ==
    IF markup = <<>> THEN 0 ELSE ClassMatches(Head(markup)) + UnicodeIcons(Tail(markup))

\* mutant: the tiny icons are counted among the priority images
PriorityImagesWithIcons(imgs) ==
    LET image_cats == FilterMeaningfulImages(imgs)
    IN  image_cats.meaningful_images \o image_cats.logos \o image_cats.tiny_icons

\* image_categories['meaningful_images'] + image_categories['logos']
PriorityImages(imgs) ==
    LET image_cats == FilterMeaningfulImages(imgs)
    IN  image_cats.meaningful_images \o image_cats.logos

\* mutant: the trailing segment of a placeholder URL is looked for too
AwardPlaceholderToo(img, markup) ==
    IF img.actual_url /= <<>> /\ Contains(img.actual_url, markup) THEN FullAward
    ELSE IF img.src /= <<>> /\ Contains(img.src, markup) THEN FullAward
    ELSE IF img.actual_url /= <<>>
      THEN (IF LastSegment(img.actual_url) /= <<>>
               /\ Contains(LastSegment(img.actual_url), markup)
              THEN PartialAward ELSE 0)
    ELSE 0

\* mutant: the original source is looked for even when it is empty
AwardUnguarded(img, markup) ==
    IF img.actual_url /= <<>> /\ Contains(img.actual_url, markup) THEN FullAward
    ELSE IF Contains(img.src, markup) THEN FullAward
    ELSE IF img.actual_url /= <<>> /\ ~Contains(<<"picsum.photos">>, img.actual_url)
      THEN (IF LastSegment(img.actual_url) /= <<>>
               /\ Contains(LastSegment(img.actual_url), markup)
              THEN PartialAward ELSE 0)
    ELSE 0

\* what the if / elif / elif chain adds to implemented_images for one image
Award(img, markup) ==
    IF img.actual_url /= <<>> /\ Contains(img.actual_url, markup) THEN FullAward
    ELSE IF img.src /= <<>> /\ Contains(img.src, markup) THEN FullAward
    ELSE IF img.actual_url /= <<>> /\ ~Contains(<<"picsum.photos">>, img.actual_url)
      THEN (IF LastSegment(img.actual_url) /= <<>>
               /\ Contains(LastSegment(img.actual_url), markup)
              THEN PartialAward ELSE 0)
    ELSE 0

RECURSIVE Implemented(_, _)
Implemented(priority, markup) ==
    IF priority = <<>> THEN 0
    ELSE Award(Head(priority), markup) + Implemented(Tail(priority), markup)

\* min(unicode_icons * 0.1, 0.5) when unicode_icons > 0
GlyphBonus(markup) ==
    LET unicode_icons == UnicodeIcons(markup)
    IN  IF unicode_icons * GlyphAward < GlyphBonusCap
          THEN unicode_icons * GlyphAward ELSE GlyphBonusCap

\* the float _validate_smart_image_implementation returns
SmartImageScore(markup, imgs) ==
    IF imgs = <<>> THEN 1000
    ELSE LET priority == PriorityImages(imgs)
         IN  IF priority = <<>> THEN 1000
             ELSE LET implemented_images == Implemented(priority, markup) + GlyphBonus(markup)
                      score == (implemented_images * 100) \div Len(priority)
                  IN  IF score < 1000 THEN score ELSE 1000

AcmeLogo ==
    [src |-> LogoUrl, alt |-> <<"Acme", " ", "logo">>, width |-> 50, height |-> 50,
     position |-> [top |-> 10], context |-> <<>>]

\* the descriptors the lists handed to the asset scorer are drawn from
ScoredImages ==
    { AcmeLogo,
      Descriptor(<<300, 200>>,
        [src |-> PhotoUrl, alt |-> <<>>, position |-> [top |-> 200], context |-> <<>>]),
      Descriptor(<<16, 16>>,
        [src |-> PhotoUrl, alt |-> <<>>, position |-> [top |-> 10], context |-> <<>>]),
      Descriptor(<<50, 50>>,
        [src |-> DataUri, alt |-> <<>>, position |-> [top |-> 10], context |-> <<>>]),
      Descriptor(<<300, 200>>,
        [src |-> <<>>, alt |-> <<>>, position |-> None, context |-> <<>>]),
      Descriptor(<<0, 0>>,
        [src |-> <<>>, alt |-> <<>>, position |-> None, context |-> <<>>]) }

ScoredImageLists == UNION { [1..n -> ScoredImages] : n \in 0..MaxImages }

\* an img element as _fix_html leaves it
Img(url) == <<"<img", "src=\"">> \o url \o <<"\"", "loading=\"lazy\"", ">">>

ImagePieces ==
    {<<>>,
     Img(LogoUrl),
     Img(PhotoUrl),
     Img(LogoUrl) \o Img(PhotoUrl),
     Img(<<"assets", "/", "Logo", ".png">>),
     Img(<<"https:", "/", "/", "picsum.photos", "/", "50", "/", "50">>),
     Img(<<"assets", "/", "Logo", ".png">>)
        \o Img(<<"https:", "/", "/", "picsum.photos", "/", "400", "/", "50">>),
     Img(DataUri)}

GlyphPieces ==
    {<<>>,
     <<"<span", ">", "U+2699 U+FE0F", "</span>">>,
     <<"<span", ">", "U+2600 U+FE0F", "</span>">>,
     <<"<span", ">", "U+25B6 U+FE0F", "</span>">>,
     <<"<li", ">", "U+2713", "U+2713", "U+2713", "U+2713", "U+2713", "U+2713", "</li>">>}

\* the candidate markups handed to the asset scorer
AssetCandidates == {i \o g : i \in ImagePieces, g \in GlyphPieces}

\* a list of descriptors and a candidate markup are chosen
AssetInit ==
    /\ SessionInit
    /\ DraftingIdle
    /\ image_descriptions \in ScoredImageLists
    /\ image_categories = None
    /\ text_data = None
    /\ html \in AssetCandidates
    /\ content_checks = None
    /\ image_score = None

\* image_score = self._validate_smart_image_implementation(html_content, scraped_data)
ValidateImages ==
    /\ image_score = None
    /\ image_score' = [score |-> SmartImageScore(html, image_descriptions)]
    /\ UNCHANGED <<image_descriptions, image_categories, text_data, html, content_checks>>
    /\ UNCHANGED drafting
    /\ UNCHANGED session

AssetSpec == AssetInit /\ [][ValidateImages]_vars

-----------------------------------------------------------------------------
(* Properties of the asset scorer *)

\* C19: with no source image, or with source images that are all icons, the
\* asset score is exactly 1.0 for every candidate markup.
C19_NothingRequiredScoresOne ==
    (/\ image_score /= None
     /\ \A n \in DOMAIN image_descriptions :
            CascadeTier(image_descriptions[n]) = "tiny_icons") => image_score.score = 1000

\* two icons and a candidate that holds no image and no glyph
C19_Witness ==
    /\ image_score /= None
    /\ image_score.score = 1000
    /\ Len(image_descriptions) = 2
    /\ \A n \in DOMAIN image_descriptions :
            CascadeTier(image_descriptions[n]) = "tiny_icons"
    /\ html = <<>>

\* the candidate holds neither the image's URL, nor its original source, nor
\* the trailing segment of its URL
Unmatched(img) ==
    /\ ~Contains(ActualUrl(img), html)
    /\ img.src = <<>> \/ ~Contains(img.src, html)
    /\ ~Contains(LastSegment(ActualUrl(img)), html)

IsPriority(img) == CascadeTier(img) \in {"logos", "meaningful_images"}

\* no logo and no content image of the source is matched
ZeroMatches ==
    \A n \in DOMAIN image_descriptions :
        IsPriority(image_descriptions[n]) => Unmatched(image_descriptions[n])

\* no character of the candidate is in the class the scorer counts
ZeroClassCharacters ==
    \A i \in DOMAIN html : html[i] \notin {"U+2699 U+FE0F", "U+2713", "U+2600 U+FE0F",
                                          "U+25B6 U+FE0F"}

HasPriorityImage == \E n \in DOMAIN image_descriptions : IsPriority(image_descriptions[n])

\* C20 as claimed: for every source image list, a candidate that matches no
\* priority image and holds no symbolic icon glyph scores 0.0.
C20_NoMatchScoresZero ==
    (image_score /= None /\ ZeroMatches /\ ZeroClassCharacters)
        => image_score.score = 0

\* C20 (amended): when the source has at least one logo or content image, a
\* candidate that matches none of them and holds no character of the
\* scorer's glyph class scores 0.0.
C20_NoMatchOfPriorityScoresZero ==
    (image_score /= None /\ HasPriorityImage /\ ZeroMatches /\ ZeroClassCharacters)
        => image_score.score = 0

\* a logo, a large image without source and an icon, and a candidate that
\* holds the icon's image only
C20_Witness ==
    /\ image_score /= None
    /\ image_score.score = 0
    /\ Len(image_descriptions) = MaxImages
    /\ image_descriptions[1] = AcmeLogo
    /\ image_descriptions[2].src = <<>> /\ image_descriptions[2].width = 300
    /\ image_descriptions[3].width = 16
    /\ html = Img(PhotoUrl)

-----------------------------------------------------------------------------
(* Both scorers on one source: 3 headings, 2 buttons, 10 navigation items  *)
(* and one 50x50 logo image with alt 'Acme logo'.                          *)

AcmeHeadings == <<Welcome, <<"Pricing">>, <<"About">>>>
AcmeButtons == <<<<"Start">>, <<"Join">>>>
AcmeFirstEight == <<<<"Home">>, <<"Docs">>, <<"Blog">>, <<"team">>, <<"jobs">>, <<"help">>,
                    <<"press">>, <<"legal">>>>
AcmeNavigation == AcmeFirstEight \o <<<<"login">>, <<"contact">>>>

AcmeText == [headings |-> AcmeHeadings, buttons |-> AcmeButtons, navigation |-> AcmeNavigation]

BrandUrl == <<"https:", "/", "/", "acme.com", "/", "brand.svg">>

\* the logo image as the scraper may describe it
AcmeLogos ==
    { [src |-> u, alt |-> <<"Acme", " ", "logo">>, width |-> 50, height |-> 50,
       position |-> p, context |-> <<>>] :
        u \in {LogoUrl, BrandUrl}, p \in {None, [top |-> 10], [top |-> 500]} }

\* <a href="#" onclick="return false;">label</a> for each label
RECURSIVE Links(_)
Links(labels) ==
    IF labels = <<>> THEN <<>>
    ELSE Element("<a", <<"href=\"#\"", NoOpClick>>, Head(labels), "</a>") \o Links(Tail(labels))

\* <button onclick="return false;">label</button> for each label
RECURSIVE Buttons(_)
Buttons(labels) ==
    IF labels = <<>> THEN <<>>
    ELSE Element("<button", <<NoOpClick>>, Head(labels), "</button>") \o Buttons(Tail(labels))

\* <h2>text</h2> for each text
RECURSIVE Headings(_)
Headings(texts) ==
    IF texts = <<>> THEN <<>>
    ELSE Element("<h2", <<>>, Head(texts), "</h2>") \o Headings(Tail(texts))

\* candidates that hold the three headings and the logo's URL, and whose
\* hyperlinks all carry the pattern _fix_html writes
AcmeCandidates(logo) ==
    { Headings(AcmeHeadings) \o Img(logo.src) \o Links(l) \o Buttons(b) \o f :
        l \in {<<>>, <<<<"more">>>>, AcmeFirstEight, AcmeNavigation},
        b \in {<<>>, AcmeButtons},
        f \in {<<>>, Element("<footer", <<>>, <<"Acme">>, "</footer>")} }

\* the source and a candidate are chosen
ScenarioInit ==
    /\ SessionInit
    /\ DraftingIdle
    /\ \E logo \in AcmeLogos :
         /\ image_descriptions = <<logo>>
         /\ html \in AcmeCandidates(logo)
    /\ image_categories = None
    /\ text_data = AcmeText
    /\ content_checks = None
    /\ image_score = None

ScenarioNext ==
    \/ ValidateContent
    \/ ValidateImages

ScenarioSpec == ScenarioInit /\ [][ScenarioNext]_vars

\* the inventory and the candidate of the scenario, both scorers having returned
ScenarioScored ==
    /\ content_checks /= None
    /\ image_score /= None
    /\ Len(text_data.headings) = 3 /\ Len(text_data.buttons) = 2
    /\ Len(text_data.navigation) = 10
    /\ Len(image_descriptions) = 1
    /\ image_descriptions[1].width = 50 /\ image_descriptions[1].height = 50
    /\ image_descriptions[1].alt = <<"Acme", " ", "logo">>
    /\ \A k \in 1..3 : Contains(text_data.headings[k], html)
    /\ Contains(image_descriptions[1].src, html)
    /\ \A i \in DOMAIN html : html[i] = "<a" => NoOpClick \in AttributesAt(i)

\* C18 as claimed: in the scenario, the candidate having a hyperlink, the
\* content score and the asset score are 1.0.
C18_ScenarioScoresOne ==
    (ScenarioScored /\ \E i \in DOMAIN html : html[i] = "<a")
        => ContentScore(content_checks) = 1000 /\ image_score.score = 1000

\* C18 (amended): in the scenario the asset score is 1.0 and the content
\* score is passed/15 with passed >= 3; it is 1.0 exactly when the candidate
\* also holds both button labels, the first eight navigation labels, a
\* landmark tag and the no-op click handler.
C18_ScenarioScores ==
    ScenarioScored =>
        /\ image_score.score = 1000
        /\ content_checks.total = 15
        /\ content_checks.passed >= 3
        /\ ContentScore(content_checks) = 1000 <=>
             /\ \A k \in 1..2 : Contains(Lower(text_data.buttons[k]), Lower(html))
             /\ \A k \in 1..8 : Contains(Lower(text_data.navigation[k]), Lower(html))
             /\ \E i \in DOMAIN html : Lower(html)[i] \in {"<nav", "<header", "<footer", "<main"}
             /\ \E i \in DOMAIN html : html[i] = NoOpClick

\* a candidate with the headings, the logo and one inert link only: 4 of 15
C18_Witness ==
    /\ ScenarioScored
    /\ content_checks.passed = 4
    /\ ContentScore(content_checks) = 266
    /\ image_score.score = 1000

\* a candidate without the last two navigation labels that scores 1.0
C18_WitnessFull ==
    /\ ScenarioScored
    /\ ContentScore(content_checks) = 1000
    /\ ~Contains(<<"login">>, html)

-----------------------------------------------------------------------------
(* Further properties of the session *)

\* C25: the visual score of every scored candidate lies in [0,1] and its
\* combined score 0.6*visual + 0.3*content + 0.1*asset is >= 0.
C25_ScoresNonNegative ==
    \A r \in Scored :
        /\ r.visual_similarity >= 0
        /\ r.visual_similarity <= 1000
        /\ r.combined_score >= 0

WasScored(k) == \E r \in Scored : r.cand = k

C28_GuardNotAtFirstIteration ==
    /\ [](\A r \in Scored : r.iteration = 1 =>
              /\ r.cand = 1
              /\ r.content_score = initial_content_score
              /\ ~Regressed(r))
    /\ [][(/\ pc = "decide"
           /\ pc' = "final_render"
           /\ ~(cur.visual >= cloner.quality_threshold /\ cur.image > AssetAcceptFloor))
            => (iteration >= 2 /\ cands[html_content].gen_iter >= 1)]_vars

\* the iteration-0 candidate has content score 0, iteration 1 scored it and
\* the loop went on to a second iteration
C28_Witness ==
    /\ Len(iteration_results) >= 2
    /\ initial_content_score = 0
    /\ iteration_results[1].content_score = 0

\* C29: when the iteration-0 generate call or the initial scoring raises, no
\* best-so-far exists, no render call is made, and clone_website returns
\* success = false with the error document as html.
C29_FailureBeforeLoopIsFatal ==
    (Done /\ result.error \in {"generate failed", "scorer failed"}) =>
        /\ ~result.success
        /\ result.html = ErrorPage
        /\ result.iterations = 0
        /\ best_html = 0
        /\ renders = 0
        /\ iteration_results = <<>>

\* the initial scoring raised on the candidate the generate call had returned
C29_Witness ==
    /\ Done
    /\ result.error = "scorer failed"
    /\ Len(cands) = 1
    /\ html_content = 1

\* C30 as claimed: the reported count is k-1 when iteration k raised.
C30_RaiseReportsPrevious ==
    (Succeeded /\ caught /= None) => result.iterations = caught.iteration - 1

\* C30 (amended): in every successful result 'iterations' is the number of
\* loop iterations whose render and scoring completed, between 0 and
\* max_iterations; it is k-1 when the render or the scoring of iteration k
\* raised and k when the refinement call of iteration k raised; it is 0, with
\* the unscored iteration-0 candidate returned, when max_iterations is 0 or
\* the render or scoring of iteration 1 raised.
C30_ReportedIterations ==
    Succeeded =>
        /\ result.iterations = Cardinality({r.iteration : r \in Scored})
        /\ \A r \in Scored : r.iteration <= result.iterations
        /\ 0 <= result.iterations /\ result.iterations <= cfg.max_iterations
        /\ caught /= None =>
             result.iterations = IF caught.source = "generate"
                                   THEN caught.iteration ELSE caught.iteration - 1
        /\ (\/ cfg.max_iterations = 0
            \/ (caught /= None /\ caught.iteration = 1 /\ caught.source /= "generate"))
             => (result.iterations = 0 /\ result.html = 1 /\ ~WasScored(1))

\* the refinement call of iteration 1 raised, and one iteration is reported
C30_Witness ==
    /\ Succeeded
    /\ caught /= None
    /\ caught.source = "generate"
    /\ caught.iteration = 1
    /\ result.iterations = 1

-----------------------------------------------------------------------------
(* The asset score as a formula *)

\* the source images that are logos or content images, by their place in
\* the list
PriorityPlaces == {n \in DOMAIN image_descriptions : IsPriority(image_descriptions[n])}

MatchedInFull(img) ==
    \/ Contains(ActualUrl(img), html)
    \/ (img.src /= <<>> /\ Contains(img.src, html))

MatchedBySegment(img) ==
    /\ ~MatchedInFull(img)
    /\ LastSegment(ActualUrl(img)) /= <<>>
    /\ Contains(LastSegment(ActualUrl(img)), html)

IsPlaceholder(url) == Contains(<<"picsum.photos">>, url)

\* the sum of the function f over a set of places
RECURSIVE SumOver(_, _)
SumOver(places, f) ==
    IF places = {} THEN 0
    ELSE LET n == CHOOSE m \in places : TRUE
         IN  f[n] + SumOver(places \ {n}, f)

\* the award of the claim, in tenths: the segment counts for every image
ClaimedAward(n) ==
    LET img == image_descriptions[n]
    IN  IF MatchedInFull(img) THEN 10 ELSE IF MatchedBySegment(img) THEN 8 ELSE 0

\* the award, in tenths: the segment does not count for a placeholder
SegmentAward(n) ==
    LET img == image_descriptions[n]
    IN  IF MatchedInFull(img) THEN 10
        ELSE IF MatchedBySegment(img) /\ ~IsPlaceholder(ActualUrl(img)) THEN 8
        ELSE 0

\* the characters of the candidate the scorer's class matches
ClassCharacters == UnicodeIcons(html)

\* min(1.0, (awards + bonus) / number of priority images), in thousandths
FormulaScore(awards) ==
    LET bonus == IF ClassCharacters < 5 THEN ClassCharacters ELSE 5
        value == ((awards + bonus) * 100) \div Cardinality(PriorityPlaces)
    IN  IF value < 1000 THEN value ELSE 1000

\* C21 as claimed: with a priority image, the score is min(1.0, (awards +
\* bonus) / priority images), the trailing segment earning 0.8 for every
\* priority image, placeholders included.
C21_FormulaWithSegmentForAll ==
    (image_score /= None /\ PriorityPlaces /= {}) =>
        image_score.score = FormulaScore(SumOver(PriorityPlaces, [n \in PriorityPlaces |-> ClaimedAward(n)]))

\* C21 (amended): with a priority image, the score is min(1.0, (awards +
\* bonus) / priority images) and lies in [0,1]; an image earns 1.0 when its
\* resolved URL or else its original source occurs in the candidate, 0.8 when
\* only the trailing segment of its URL occurs and that URL is not the
\* placeholder, else 0; the bonus is 0.1 for each character of the scorer's
\* class in the candidate, at most 0.5.
C21_FormulaWithSegmentForRealUrls ==
    (image_score /= None /\ PriorityPlaces /= {}) =>
        /\ image_score.score = FormulaScore(SumOver(PriorityPlaces, [n \in PriorityPlaces |-> SegmentAward(n)]))
        /\ image_score.score \in 0..1000

\* a logo matched by its file name only and an image with a placeholder URL
\* whose last segment occurs in the candidate, with one gear glyph: (0.8 + 0
\* + 0.2) / 2
C21_Witness ==
    /\ image_score /= None
    /\ image_score.score = 500
    /\ Len(image_descriptions) = 2
    /\ image_descriptions[1] = AcmeLogo
    /\ IsPlaceholder(ActualUrl(image_descriptions[2]))
    /\ MatchedBySegment(image_descriptions[2])
    /\ ClassCharacters = 2

-----------------------------------------------------------------------------
(* _extract_html and _fix_html *)

\* In markup a tag is opened by a fragment such as "<a", its attributes
\* follow one fragment each and ">" closes it; a quoted attribute value that
\* is studied part by part is written as the opening 'name="', the fragments
\* of the value and the closing '"'.  No fragment of a value holds a quote
\* or ">".

HrefPlaceholder == "href=\"#\""
SubmitHandler == "onsubmit=\"return false;\""
LazyLoading == "loading=\"lazy\""
ViewportMeta ==
    <<"<meta", "name=\"viewport\"", "content=\"width=device-width, initial-scale=1.0\"", ">">>

\* the fragments that begin with '#'
StartsWithHash(t) == t \in {"#", "#top", "#pricing"}

\* the fragments in which 'onclick=' occurs
HasOnclick(t) == t \in {NoOpClick, "onclick=\"buy()\"", "onclick='return false;'"}

\* the fragments in which 'onsubmit=' occurs
HasOnsubmit(t) == t \in {SubmitHandler, "onsubmit=\"send()\""}

\* the fragments in which 'viewport' occurs
HasViewport(t) == t \in {"name=\"viewport\"", "name='viewport'", "viewport"}

\* the first place after the head of s that holds t, 0 when there is none
FirstAfterHead(s, t) ==
    LET places == {j \in 2..Len(s) : s[j] = t}
    IN  IF places = {} THEN 0 ELSE CHOOSE j \in places : \A k \in places : j <= k

\* re.sub(r'href="(?!#)[^"]*"', 'href="#" onclick="return false;"', html)
RECURSIVE DisableLinks(_)
DisableLinks(s) ==
    IF s = <<>> THEN s
    ELSE LET close == FirstAfterHead(s, "\"")
         IN  IF Head(s) = "href=\"" /\ close /= 0 /\ ~StartsWithHash(s[2])
               THEN <<HrefPlaceholder, NoOpClick>> \o DisableLinks(SubSeq(s, close + 1, Len(s)))
               ELSE <<Head(s)>> \o DisableLinks(Tail(s))

\* the fragments the lookahead [^>]* runs over: those after the head of s up
\* to the next ">"
UpToTagEnd(s) ==
    LET end == FirstAfterHead(s, ">")
    IN  {s[k] : k \in 2..(IF end = 0 THEN Len(s) ELSE end - 1)}

\* re.sub(r'<button(?![^>]*onclick=)', '<button onclick="return false;"', html)
RECURSIVE DisableButtons(_)
DisableButtons(s) ==
    IF s = <<>> THEN s
    ELSE IF Head(s) = "<button" /\ ~\E t \in UpToTagEnd(s) : HasOnclick(t)
      THEN <<"<button", NoOpClick>> \o DisableButtons(Tail(s))
      ELSE <<Head(s)>> \o DisableButtons(Tail(s))

\* re.sub(r'<form(?![^>]*onsubmit=)', '<form onsubmit="return false;"', html)
RECURSIVE DisableForms(_)
DisableForms(s) ==
    IF s = <<>> THEN s
    ELSE IF Head(s) = "<form" /\ ~\E t \in UpToTagEnd(s) : HasOnsubmit(t)
      THEN <<"<form", SubmitHandler>> \o DisableForms(Tail(s))
      ELSE <<Head(s)>> \o DisableForms(Tail(s))

\* html.replace('<head>', '<head>\n    <meta name="viewport" ...>')
RECURSIVE InsertViewport(_)
InsertViewport(s) ==
    IF s = <<>> THEN s
    ELSE IF Head(s) = "<head" /\ Len(s) >= 2 /\ s[2] = ">"
      THEN <<"<head", ">">> \o ViewportMeta \o InsertViewport(SubSeq(s, 3, Len(s)))
      ELSE <<Head(s)>> \o InsertViewport(Tail(s))

\* if 'viewport' not in html: html = html.replace('<head>', ...)
AddViewport(s) ==
    IF \E i \in DOMAIN s : HasViewport(s[i]) THEN s ELSE InsertViewport(s)

\* re.sub(r'<img([^>]*?)(?<!loading=")(?<!loading=\')>', r'<img\1 loading="lazy">', html)
RECURSIVE LazyImages(_)
LazyImages(s) ==
    IF s = <<>> THEN s
    ELSE LET end == FirstAfterHead(s, ">")
         IN  IF Head(s) = "<img" /\ end /= 0 /\ s[end - 1] \notin {"loading=\"", "loading='"}
               THEN SubSeq(s, 1, end - 1) \o <<LazyLoading, ">">>
                      \o LazyImages(SubSeq(s, end + 1, Len(s)))
               ELSE <<Head(s)>> \o LazyImages(Tail(s))

\* _fix_html
FixHtml(markup) == LazyImages(AddViewport(DisableForms(DisableButtons(DisableLinks(markup)))))

\* the markdown fence of three grave accents, alone and followed by html
Fence == "[fence]"
FenceHtml == "[fence]html"

\* the two re.sub calls that remove the fences
RemoveMarkdown(s) == SelectSeq(s, LAMBDA t : t \notin {FenceHtml, Fence})

\* re.search(pattern, response_text, re.DOTALL | re.IGNORECASE) for the
\* pattern open.*?</html>: the first open with a </html> after it, up to the
\* first such </html>; <<>> when there is no match
SearchDocument(s, open) ==
    LET low == Lower(s)
        starts == {i \in DOMAIN s : low[i] = open /\ \E j \in (i + 1)..Len(s) : low[j] = "</html>"}
    IN  IF starts = {} THEN <<>>
        ELSE LET i == CHOOSE a \in starts : \A b \in starts : a <= b
                 j == CHOOSE a \in (i + 1)..Len(s) :
                        low[a] = "</html>" /\ \A b \in (i + 1)..(a - 1) : low[b] /= "</html>"
             IN  SubSeq(s, i, j)

\* _extract_html
ExtractAndFix(text) ==
    LET stripped == RemoveMarkdown(text)
        doctype == SearchDocument(stripped, "<!doctype html>")
        document == SearchDocument(stripped, "<html")
    IN  IF doctype /= <<>> THEN FixHtml(Strip(doctype))
        ELSE IF document /= <<>> THEN FixHtml(Strip(document))
        ELSE FixHtml(Strip(stripped))

\* what the generator writes around the document
Preambles == {<<>>, <<FenceHtml>>, <<"Here is the page:", " ">>}

\* how the document is opened
DocumentOpenings ==
    {<<>>, <<"<!DOCTYPE html>", "<html", ">">>, <<"<html", "lang=\"en\"", ">">>}

\* the head of the document
DocumentHeads ==
    {<<>>,
     <<"<head", ">", "</head>">>,
     <<"<head", "lang=\"en\"", ">", "</head>">>,
     <<"<head", ">">> \o ViewportMeta \o <<"</head>">>}

\* a hyperlink with the target written as the generator wrote it
Anchor(target) == Element("<a", target, <<"Pricing">>, "</a>")

\* the body of the document
DocumentBodies ==
    {<<>>,
     Anchor(<<"href=\"", "/", "pricing", "\"">>),
     Anchor(<<"href=\"", "#pricing", "\"">>),
     Anchor(<<HrefPlaceholder>>),
     Anchor(<<"href='", "/", "pricing", "'">>),
     Anchor(<<"href=", "/", "pricing">>),
     Element("<button", <<>>, SignUp, "</button>"),
     Element("<button", <<"onclick=\"buy()\"">>, BuyNow, "</button>"),
     Element("<form", <<"action=\"/buy\"">>, BuyNow, "</form>"),
     <<"<img", "src=\"", "assets", "/", "Logo", ".png", "\"", ">">>,
     <<"<img", "src=\"", "assets", "/", "Logo", ".png", "\"", LazyLoading, ">">>,
     Element("<p", <<>>, <<"viewport">>, "</p>")}

\* the response texts studied
ResponseTexts ==
    {pre \o open \o head \o body
        \o (IF open = <<>> THEN <<>> ELSE <<"</html>">>)
        \o (IF pre = <<FenceHtml>> THEN <<Fence>> ELSE <<>>) :
       pre \in Preambles, open \in DocumentOpenings, head \in DocumentHeads,
       body \in DocumentBodies}

\* a response text is chosen
NormalizerInit ==
    /\ SessionInit
    /\ ScoringIdle
    /\ response_text \in ResponseTexts
    /\ normalized = <<>>
    /\ current_html = <<>>
    /\ visual_similarity = 0
    /\ refinement_prompt = None

\* _generate_html: return self._extract_html(response.content[0].text)
Normalize ==
    /\ normalized = <<>>
    /\ normalized' = <<ExtractAndFix(response_text)>>
    /\ UNCHANGED <<response_text, current_html, visual_similarity, refinement_prompt>>
    /\ UNCHANGED <<image_descriptions, image_categories, text_data, html, content_checks,
                   image_score>>
    /\ UNCHANGED session

\* _simple_refine: the response repeats the markup it was given, and
\* _extract_html is applied to it
NormalizeAgain ==
    /\ Len(normalized) = 1
    /\ normalized' = Append(normalized, ExtractAndFix(normalized[1]))
    /\ UNCHANGED <<response_text, current_html, visual_similarity, refinement_prompt>>
    /\ UNCHANGED <<image_descriptions, image_categories, text_data, html, content_checks,
                   image_score>>
    /\ UNCHANGED session

NormalizerNext ==
    \/ Normalize
    \/ NormalizeAgain

NormalizerSpec == NormalizerInit /\ [][NormalizerNext]_vars

-----------------------------------------------------------------------------
(* Properties of the normalizer *)

\* C22: normalize(normalize(x)) = normalize(x) for every response text x -
\* handing the normalizer its own output changes nothing.
C22_NormalizerIdempotent ==
    Len(normalized) = 2 => normalized[2] = normalized[1]

\* the places of markup m where a hyperlink target is written
LinkTargets(m) == {i \in DOMAIN m : m[i] \in {HrefPlaceholder, "href=\"", "href='", "href="}}

\* the target written at place i of m is a fragment link
IsFragmentTarget(m, i) ==
    \/ m[i] = HrefPlaceholder
    \/ (i < Len(m) /\ StartsWithHash(m[i + 1]))

\* C23: every hyperlink target of the normalizer's output is a fragment link
\* (the placeholder "#" among them); no other target survives, whatever the
\* quoting of the attribute.
C23_NoLiveLinkSurvives ==
    Len(normalized) >= 1 =>
        \A i \in LinkTargets(normalized[1]) : IsFragmentTarget(normalized[1], i)

\* m has a document head
HasHead(m) == \E i \in DOMAIN m : m[i] = "<head"

\* a viewport declaration stands inside the head of m
ViewportInHead(m) ==
    \E i, j \in DOMAIN m :
        /\ i < j
        /\ m[i] = "<head"
        /\ m[j] = "</head>"
        /\ \E k \in (i + 1)..(j - 1) : m[k] = "name=\"viewport\""

\* C24: when the response has a document head, the normalizer's output has a
\* viewport declaration inside the head.
C24_ViewportInHead ==
    (Len(normalized) >= 1 /\ HasHead(response_text)) => ViewportInHead(normalized[1])

-----------------------------------------------------------------------------
(* create_simple_refinement_prompt *)

\* if visual_similarity > 0.8
MinorTouchUpAbove == 800

\* current_html.count('<img')
ImgCount(markup) == Cardinality({i \in DOMAIN markup : markup[i] = "<img"})

\* the number of characters of a fragment that the class
\* [U+2699 U+FE0F U+1F50D ... U+2713] of the prompt builder's findall
\* matches; the arrows and triangles of the scorer's class are not in it
PromptClassMatches(t) ==
    CASE t = "U+2699 U+FE0F" -> 2
      [] t = "U+2713"        -> 1
      [] t = "U+2600 U+FE0F" -> 1
      [] t = "U+25B6 U+FE0F" -> 1
      [] OTHER               -> 0

\* len(re.findall(r'[...]', current_html))
RECURSIVE PromptIcons(_)
PromptIcons(markup) ==
    IF markup = <<>> THEN 0 ELSE PromptClassMatches(Head(markup)) + PromptIcons(Tail(markup))

\* the prompt with only its first line, its CRITICAL line and the values
\* formatted into it
MinorPrompt(markup, visual) ==
    [opening |-> "The visual similarity is good",
     shown |-> visual,
     critical |-> "Keep ALL existing content and important images exactly as they are.",
     current_html |-> markup]

StrongPrompt(markup, visual) ==
    [opening |-> "Visual similarity is low",
     shown |-> visual,
     img_count |-> ImgCount(markup),
     unicode_count |-> PromptIcons(markup),
     critical |-> "Keep ALL existing text content exactly as it is.",
     current_html |-> markup]

\* mutant: the minor prompt is chosen at 0.8 too
CreateSimpleRefinementPromptFromThreshold(markup, visual) ==
    IF visual >= MinorTouchUpAbove THEN MinorPrompt(markup, visual)
    ELSE StrongPrompt(markup, visual)

CreateSimpleRefinementPrompt(markup, visual) ==
    IF visual > MinorTouchUpAbove THEN MinorPrompt(markup, visual)
    ELSE StrongPrompt(markup, visual)

\* the visual scores handed to the prompt builder
PromptVisuals == {-500, 0, 400, 799, 800, 801, 850, 1000}

\* html_content and visual_similarity of the iteration are chosen
PromptInit ==
    /\ SessionInit
    /\ ScoringIdle
    /\ response_text = <<>>
    /\ normalized = <<>>
    /\ current_html \in AssetCandidates
    /\ visual_similarity \in PromptVisuals
    /\ refinement_prompt = None

\* refinement_prompt = self.create_simple_refinement_prompt(current_html,
\*                                                visual_similarity, iteration)
BuildPrompt ==
    /\ refinement_prompt = None
    /\ refinement_prompt' = CreateSimpleRefinementPrompt(current_html, visual_similarity)
    /\ UNCHANGED <<response_text, normalized, current_html, visual_similarity>>
    /\ UNCHANGED <<image_descriptions, image_categories, text_data, html, content_checks,
                   image_score>>
    /\ UNCHANGED session

PromptSpec == PromptInit /\ [][BuildPrompt]_vars

IsMinorPrompt == refinement_prompt.opening = "The visual similarity is good"

IsStrongPrompt == refinement_prompt.opening = "Visual similarity is low"

\* C26: the refinement prompt is the minor touch-up prompt exactly when the
\* visual score handed to it is strictly greater than 0.8 and the image
\* strategy prompt, with the counts of img tags and of symbolic icons of the
\* candidate, otherwise; both carry the candidate's markup and an instruction
\* to keep the existing content.
C26_ToneBranch ==
    refinement_prompt /= None =>
        /\ IsMinorPrompt <=> visual_similarity > 800
        /\ IsStrongPrompt <=> visual_similarity <= 800
        /\ IsStrongPrompt =>
             /\ refinement_prompt.img_count
                  = Len(SelectSeq(current_html, LAMBDA t : t = "<img"))
             /\ refinement_prompt.unicode_count = PromptIcons(current_html)
        /\ refinement_prompt.current_html = current_html
        /\ refinement_prompt.shown = visual_similarity
        /\ refinement_prompt.critical \in
             {"Keep ALL existing content and important images exactly as they are.",
              "Keep ALL existing text content exactly as it is."}

\* the image strategy prompt at a visual score of exactly 0.8, for a candidate
\* with two img tags and a gear glyph
C26_Witness ==
    /\ refinement_prompt /= None
    /\ visual_similarity = 800
    /\ IsStrongPrompt
    /\ refinement_prompt.img_count = 2
    /\ refinement_prompt.unicode_count = 2

====
